---- MODULE Spec2Model ----
(***************************************************************************)
(* A model of the Ozone STS / Keycloak demo clients:                       *)
(*   sts_client.py            STSCredentials, STSClient                    *)
(*   keycloak_client.py       KeycloakClient (token cache)                 *)
(*   demo_token_lifecycle.py  TokenLifecycleManager (renewal policy)       *)
(*                                                                         *)
(* Eight specifications share the variables; each leaves the other groups  *)
(* at their initial value:                                                 *)
(*   SpecSTS     STSClient.assume_role_with_web_identity and its parser    *)
(*   SpecExpiry  STSCredentials.is_expired                                 *)
(*   SpecKC      KeycloakClient.authenticate / get_access_token /          *)
(*               refresh_token                                             *)
(*   SpecJwt     KeycloakClient.decode_token / is_token_valid              *)
(*   Spec        TokenLifecycleManager against its three backends          *)
(*   SpecRace    two threads in ensure_valid_credentials                   *)
(*   SpecToken   TokenLifecycleManager.authenticate / refresh_oidc_token   *)
(*   SpecExchange  TokenLifecycleManager.get_s3_credentials on a manager   *)
(*               that may hold an identity token                           *)
(***************************************************************************)
EXTENDS Integers, Sequences, FiniteSets, TLC

VARIABLES
    sts_response,   \* the HTTP response the STS endpoint gave: [status, wellformed, root]
    sts_result,     \* what the STSClient call made of it
    sts_called,     \* which STSClient entry point ran ("none" before the call)
    now,            \* the clock, in seconds (UTC)
    tz,             \* the local time zone's UTC offset
    exp_string,     \* SpecExpiry: the expiration string of the credentials
    exp_result,     \* SpecExpiry: what is_expired() gave ("none" before the call)
    kc_cache,       \* KeycloakClient._token_cache: username -> cache entry
    kc_serial,      \* the number of tokens the Keycloak server has issued
    kc_last,        \* the last KeycloakClient call: its arguments and outcome
    jwt,            \* the token the caller hands to decode_token and is_token_valid
    mgr,            \* the TokenLifecycleManager's fields
    sts_serial,     \* the number of credential sets the STS has issued
    call,           \* the perform_s3_operation call in progress, or the last one
    log,            \* how many backend calls of each kind the current
                    \* perform_s3_operation call has made
    last_storage,   \* the last storage call and the credential set it was signed with
    race,           \* SpecRace: two threads inside ensure_valid_credentials
    token_call      \* SpecToken: the last call that dealt with the identity token,
                    \* and the response the held identity token came from

stsVars == <<sts_response, sts_result, sts_called>>
clockVars == <<now, tz>>
expVars == <<exp_string, exp_result>>
kcVars == <<kc_cache, kc_serial, kc_last, jwt>>
mgrVars == <<mgr, sts_serial, call, log, last_storage, race, token_call>>
vars == <<stsVars, clockVars, expVars, kcVars, mgrVars>>

----------------------------------------------------------------------------
(* Bounds of the model.                                                    *)

\* Element texts are 0 (no text: ElementTree gives None for <A/> and <A></A>)
\* or one of the distinct non-empty texts 1..MaxText.
MaxText == 2

\* The clock runs from 0 to MaxTime.
MaxTime == 2

\* UTC offsets (of the local zone, of an expiration string) are -MaxOffset..MaxOffset.
MaxOffset == 1

\* The Keycloak server issues at most MaxTokens tokens.
MaxTokens == 2

\* The STS issues at most MaxCreds credential sets, each valid 1..MaxLife seconds.
MaxCreds == 3
MaxLife == 2

\* perform_s3_operation is followed through at most MaxDepth nested invocations.
MaxDepth == 3

----------------------------------------------------------------------------
(* XML documents as ElementTree sees them.  An element is                  *)
(*   [ns, tag, text, kids]: ns is the namespace URI ("" when the tag is    *)
(* unqualified), kids the child elements in document order.                *)

STS_NS == "https://sts.amazonaws.com/doc/2011-06-15/"

NoElem == [ns |-> "?", tag |-> "?", text |-> 0, kids |-> <<>>]

Elem(ns, tag, text, kids) == [ns |-> ns, tag |-> tag, text |-> text, kids |-> kids]

RECURSIVE Flatten(_)
Flatten(seqs) == IF seqs = <<>> THEN <<>> ELSE Head(seqs) \o Flatten(Tail(seqs))

\* Element.iter(): the element and its descendants in document order.
RECURSIVE Iter(_)
Iter(e) == <<e>> \o Flatten([i \in 1..Len(e.kids) |-> Iter(e.kids[i])])

\* The first element of seq with the given namespace and tag, or NoElem.
FindFirst(seq, ns, tag) ==
    LET hits == {i \in 1..Len(seq) : seq[i].ns = ns /\ seq[i].tag = tag}
    IN  IF hits = {} THEN NoElem
        ELSE seq[CHOOSE i \in hits : \A j \in hits : i <= j]

\* element.find('.//{ns}tag'): the first descendant (never the element itself).
FindDescendant(e, ns, tag) == FindFirst(Tail(Iter(e)), ns, tag)

\* element.find('{ns}tag') / element.find('tag'): the first direct child.
FindChild(e, ns, tag) == FindFirst(e.kids, ns, tag)

----------------------------------------------------------------------------
(* sts_client.py: STSClient                                                *)

Fields == <<"AccessKeyId", "SecretAccessKey", "SessionToken", "Expiration">>

\* STSCredentials(access_key_id, secret_access_key, session_token, expiration);
\* a field is a text 1..MaxText or 0, the empty string.
STSCredentials(a, s, t, e) ==
    [access_key_id |-> a, secret_access_key |-> s, session_token |-> t, expiration |-> e]

NoCredentials == STSCredentials(0, 0, 0, 0)

\* The exception an STSClient call raises.  type names the raise statement;
\* status, code and message are the values formatted into its text
\* (code -1: the literal 'Unknown'; message -1: no " - <message>" suffix;
\* 0: the text of an empty element, printed as None).
StsError(type, status, code, message) ==
    [type |-> type, status |-> status, code |-> code, message |-> message]

NoError == StsError("none", 0, -1, -1)

Returned(creds) == [kind |-> "returned", creds |-> creds, error |-> NoError]
Raised(err) == [kind |-> "raised", creds |-> NoCredentials, error |-> err]
NotCalled == [kind |-> "none", creds |-> NoCredentials, error |-> NoError]

\* A mutant of get_text: no fallback to the unqualified tag.
get_text_qualified_only(element, tag, namespace) ==
    LET child == IF namespace THEN FindChild(element, STS_NS, tag) ELSE NoElem
    IN  IF child # NoElem /\ child.text # 0 THEN child.text ELSE 0

\* STSClient._get_text(element, tag, namespace): the qualified child first,
\* then the unqualified one; '' when there is none or it has no text.
get_text(element, tag, namespace) ==
    LET qualified == IF namespace THEN FindChild(element, STS_NS, tag) ELSE NoElem
        child == IF qualified = NoElem THEN FindChild(element, "", tag) ELSE qualified
    IN  IF child # NoElem /\ child.text # 0 THEN child.text ELSE 0

\* STSClient._parse_assume_role_response(xml_response).
parse_assume_role_response(body) ==
    IF ~body.wellformed THEN Raised(StsError("ParseError", 0, -1, -1))
    ELSE
    LET root == body.root
        error == FindDescendant(root, STS_NS, "Error")
        code == FindDescendant(error, STS_NS, "Code")
        message == FindDescendant(error, STS_NS, "Message")
        qcreds == FindDescendant(root, STS_NS, "Credentials")
        creds == IF qcreds = NoElem THEN FindDescendant(root, "", "Credentials") ELSE qcreds
    IN  IF error # NoElem
        THEN Raised(StsError("STSError", 0,
                             IF code # NoElem THEN code.text ELSE -1,
                             IF message # NoElem THEN message.text ELSE -1))
        ELSE IF creds = NoElem
        THEN Raised(StsError("NoCredentials", 0, -1, -1))
        ELSE Returned(STSCredentials(get_text(creds, Fields[1], TRUE),
                                     get_text(creds, Fields[2], TRUE),
                                     get_text(creds, Fields[3], TRUE),
                                     get_text(creds, Fields[4], TRUE)))

HTTP_OK == 200

\* STSClient.assume_role_with_web_identity, from the response on.
assume_role_with_web_identity(response) ==
    IF response.status # HTTP_OK
    THEN Raised(StsError("RequestFailed", response.status, -1, -1))
    ELSE parse_assume_role_response(response)

----------------------------------------------------------------------------
(* The responses the STS endpoint is given to send.                        *)

Forms == {STS_NS, ""}

\* A leaf element <tag>text</tag> in either form, or none at all.
LeafOpts(tag) ==
    {<<>>} \cup {<<Elem(ns, tag, t, <<>>)>> : ns \in Forms, t \in 0..MaxText}

ErrorElems ==
    {Elem(ns, "Error", 0, c \o m) :
        ns \in Forms, c \in LeafOpts("Code"), m \in LeafOpts("Message")}

CredsElems ==
    {Elem(ns, "Credentials", 0, a \o s \o t \o e) :
        ns \in Forms, a \in LeafOpts(Fields[1]), s \in LeafOpts(Fields[2]),
        t \in LeafOpts(Fields[3]), e \in LeafOpts(Fields[4])}

\* Credentials with every field present once, qualified, with text 1.
PlainKids == [i \in 1..4 |-> Elem(STS_NS, Fields[i], 1, <<>>)]

\* Credentials in which one field appears in both forms, texts 1 and 2.
DupCredsElems ==
    {Elem(ns, "Credentials", 0,
          [i \in 1..5 |->
              IF i < f THEN PlainKids[i]
              ELSE IF i = f THEN Elem(first, Fields[f], 1, <<>>)
              ELSE IF i = f + 1
                   THEN Elem(IF first = "" THEN STS_NS ELSE "", Fields[f], 2, <<>>)
              ELSE PlainKids[i - 1]]) :
        ns \in Forms, f \in 1..4, first \in Forms}

Result(ns, creds) == Elem(ns, "AssumeRoleWithWebIdentityResult", 0, <<creds>>)

Roots ==
    {Elem(STS_NS, "Response", 0, <<>>)}
    \cup {Elem(e.ns, "ErrorResponse", 0, <<e>>) : e \in ErrorElems}
    \cup {Elem(c.ns, "AssumeRoleWithWebIdentityResponse", 0, <<Result(c.ns, c)>>) :
             c \in CredsElems \cup DupCredsElems}
    \cup {Elem(e.ns, "Response", 0, <<e, Result(ns, Elem(ns, "Credentials", 0, PlainKids))>>) :
             e \in ErrorElems, ns \in Forms}

Statuses == {HTTP_OK, 403}

Responses ==
    {[status |-> st, wellformed |-> TRUE, root |-> r] : st \in Statuses, r \in Roots}
    \cup {[status |-> st, wellformed |-> FALSE, root |-> NoElem] : st \in Statuses}

----------------------------------------------------------------------------
(* The actions of SpecSTS: one response, one STSClient call on it.         *)

StsInit ==
    /\ sts_response \in Responses
    /\ sts_result = NotCalled
    /\ sts_called = "none"

AssumeRoleWithWebIdentity ==
    /\ sts_called = "none"
    /\ sts_called' = "assume_role_with_web_identity"
    /\ sts_result' = assume_role_with_web_identity(sts_response)
    /\ UNCHANGED <<sts_response, clockVars, expVars, kcVars, mgrVars>>

ParseAssumeRoleResponse ==
    /\ sts_called = "none"
    /\ sts_called' = "parse_assume_role_response"
    /\ sts_result' = parse_assume_role_response(sts_response)
    /\ UNCHANGED <<sts_response, clockVars, expVars, kcVars, mgrVars>>


----------------------------------------------------------------------------
(* Claims about STSClient (SpecSTS).                                       *)

\* The descendant with this tag in either form (the qualified one first).
AnyForm(e, tag) ==
    LET q == FindDescendant(e, STS_NS, tag)
    IN  IF q # NoElem THEN q ELSE FindDescendant(e, "", tag)

\* The children of e with this tag, whatever their namespace.
Tagged(e, tag) == {i \in 1..Len(e.kids) : e.kids[i].tag = tag}

\* The text of the only child of e with this tag.
OnlyText(e, tag) == e.kids[CHOOSE i \in Tagged(e, tag) : TRUE].text

\* The text of the namespace-qualified child of e with this tag.
QualifiedText(e, tag) ==
    e.kids[CHOOSE i \in Tagged(e, tag) : e.kids[i].ns = STS_NS].text

\* The response carries a Credentials element whose four fields are all
\* present with a non-empty text, and no Error element.
WellFormedCredentials(response) ==
    /\ response.wellformed
    /\ AnyForm(response.root, "Error") = NoElem
    /\ AnyForm(response.root, "Credentials") # NoElem
    /\ \A i \in 1..4 :
          LET c == AnyForm(response.root, "Credentials")
          IN  /\ Tagged(c, Fields[i]) # {}
              /\ \A k \in Tagged(c, Fields[i]) : c.kids[k].text # 0

\* C5 (as claimed): a response whose body holds an Error element with a Code
\* and a Message makes assume_role_with_web_identity raise the STS error that
\* carries that code and message, whatever the HTTP status.  Stated for the
\* namespace-qualified payload, the form the parser reads.
C5_ErrorPayloadBeforeStatus ==
    LET error == FindDescendant(sts_response.root, STS_NS, "Error")
        code == FindDescendant(error, STS_NS, "Code")
        message == FindDescendant(error, STS_NS, "Message")
    IN  (/\ sts_called = "assume_role_with_web_identity"
         /\ sts_response.wellformed
         /\ AnyForm(sts_response.root, "Credentials") = NoElem
         /\ error # NoElem /\ code # NoElem /\ message # NoElem
         /\ code.text # 0 /\ message.text # 0)
        => /\ sts_result.kind = "raised"
           /\ sts_result.error.type = "STSError"
           /\ sts_result.error.code = code.text
           /\ sts_result.error.message = message.text

\* C6 (as claimed): every STSCredentials that _parse_assume_role_response
\* returns has four non-empty fields.
C6_ReturnedCredentialsComplete ==
    (sts_called = "parse_assume_role_response" /\ sts_result.kind = "returned")
    => /\ sts_result.creds.access_key_id # 0
       /\ sts_result.creds.secret_access_key # 0
       /\ sts_result.creds.session_token # 0
       /\ sts_result.creds.expiration # 0

\* C7: for a response with a Credentials element carrying all four fields,
\* _parse_assume_role_response returns exactly the elements' texts, whatever
\* mix of qualified and unqualified tags the document uses; where a field is
\* there in both forms, the qualified one is read.
C7_FieldsMatchText ==
    (sts_called = "parse_assume_role_response" /\ WellFormedCredentials(sts_response))
    => LET c == AnyForm(sts_response.root, "Credentials")
           want(i) == IF Cardinality(Tagged(c, Fields[i])) = 1
                      THEN OnlyText(c, Fields[i])
                      ELSE QualifiedText(c, Fields[i])
       IN  sts_result = Returned(STSCredentials(want(1), want(2), want(3), want(4)))

\* C7 witness: unqualified Credentials, a mix of qualified and unqualified
\* fields, parsed into the texts 2, 1, 2, 1.
C7_Witness ==
    /\ sts_called = "parse_assume_role_response"
    /\ WellFormedCredentials(sts_response)
    /\ LET c == AnyForm(sts_response.root, "Credentials")
       IN  /\ c.ns = ""
           /\ \E i, j \in 1..Len(c.kids) : c.kids[i].ns = "" /\ c.kids[j].ns = STS_NS
    /\ sts_result = Returned(STSCredentials(2, 1, 2, 1))

\* C8 (as claimed): an unqualified Error element, with its Code and Message,
\* is reported as the same upstream error, carrying the same code and message,
\* as the namespace-qualified one.
C8_ErrorEitherForm ==
    LET error == AnyForm(sts_response.root, "Error")
        code == AnyForm(error, "Code")
        message == AnyForm(error, "Message")
    IN  (/\ sts_called = "parse_assume_role_response"
         /\ sts_response.wellformed
         /\ AnyForm(sts_response.root, "Credentials") = NoElem
         /\ error # NoElem /\ code # NoElem /\ message # NoElem
         /\ error.ns = "" /\ code.text # 0 /\ message.text # 0)
        => sts_result = Raised(StsError("STSError", 0, code.text, message.text))

----------------------------------------------------------------------------
(* sts_client.py: STSCredentials.is_expired                                *)
(*                                                                         *)
(* An expiration string is [kind, wall, off]:                              *)
(*   "offset"  an ISO-8601 timestamp with a UTC offset, wall+off:00        *)
(*   "zulu"    an ISO-8601 timestamp ending in Z                           *)
(*   "naive"   an ISO-8601 timestamp without a zone                        *)
(*   "garbage" a string that is no ISO-8601 timestamp (the empty string)   *)
(*   "none"    no string at all (None)                                     *)
(* wall is the wall-clock reading the timestamp shows.                     *)

IsoString(kind, wall, off) == [kind |-> kind, wall |-> wall, off |-> off]

Garbage == IsoString("garbage", 0, 0)
NoString == IsoString("none", 0, 0)

\* A datetime: aware (with a tzinfo of offset off) or naive.
DateTime(aware, wall, off) == [aware |-> aware, wall |-> wall, off |-> off]

\* expiration.replace('Z', '+00:00')
replace_Z(s) == IF s.kind = "zulu" THEN IsoString("offset", s.wall, 0) ELSE s

\* datetime.fromisoformat(s), for a string it accepts
fromisoformat(s) == DateTime(s.kind = "offset", s.wall, s.off)

\* datetime.now(tzinfo): the clock read in that zone; the local zone for None
datetime_now(aware, off) ==
    IF aware THEN DateTime(TRUE, now + off, off) ELSE DateTime(FALSE, now + tz, 0)

\* a < b on datetimes of one kind: aware ones compare as UTC instants
datetime_lt(a, b) == a.wall - a.off < b.wall - b.off

\* The try block of is_expired: "raised" where it throws.
is_expired_try(expiration) ==
    IF expiration.kind = "none" THEN "raised"          \* AttributeError
    ELSE IF replace_Z(expiration).kind = "garbage" THEN "raised"   \* ValueError
    ELSE LET exp_time == fromisoformat(replace_Z(expiration))
         IN  IF datetime_lt(exp_time, datetime_now(exp_time.aware, exp_time.off))
             THEN "true" ELSE "false"

\* A mutant of is_expired: without the except clause, an exception escapes.
is_expired_no_except(expiration) == is_expired_try(expiration)

\* STSCredentials.is_expired(): any exception counts as expired.
is_expired(expiration) ==
    IF is_expired_try(expiration) = "raised" THEN "true" ELSE is_expired_try(expiration)

----------------------------------------------------------------------------
(* The actions of SpecExpiry: one expiration string, one is_expired call.  *)

Offsets == (0 - MaxOffset)..MaxOffset

IsoStrings ==
    {IsoString("offset", w, o) : w \in 0..MaxTime, o \in Offsets}
    \cup {IsoString(k, w, 0) : k \in {"zulu", "naive"}, w \in 0..MaxTime}
    \cup {Garbage, NoString}

ExpInit ==
    /\ exp_string \in IsoStrings
    /\ exp_result = "none"

IsExpired ==
    /\ exp_result = "none"
    /\ exp_result' = is_expired(exp_string)
    /\ UNCHANGED <<exp_string, stsVars, clockVars, kcVars, mgrVars>>

----------------------------------------------------------------------------
(* Claims about is_expired (SpecExpiry).                                   *)

Parseable(s) == s.kind \in {"offset", "zulu", "naive"}

\* The instant (UTC) a parseable expiration string denotes; a timestamp
\* without a zone is local time, as datetime.now() without a zone is.
Instant(s) == IF s.kind = "naive" THEN s.wall - tz ELSE s.wall - s.off

\* C9: is_expired never raises; it is true for an expiration in the past,
\* false for one in the future, and true for one that cannot be parsed.
C9_IsExpiredFailSafe ==
    exp_result # "none"
    => /\ exp_result \in {"true", "false"}
       /\ (Parseable(exp_string) /\ Instant(exp_string) < now) => exp_result = "true"
       /\ (Parseable(exp_string) /\ Instant(exp_string) > now) => exp_result = "false"
       /\ ~Parseable(exp_string) => exp_result = "true"

\* C9 witness: an unparseable expiration string, reported as expired.
C9_Witness == exp_string = Garbage /\ exp_result = "true"

\* C10 (as claimed): credentials are expired once the current time has
\* reached the expiration: at the instant the two are equal, is_expired
\* returns true.
C10_ExpiredAtExpiration ==
    (exp_result # "none" /\ Parseable(exp_string) /\ Instant(exp_string) = now)
    => exp_result = "true"

----------------------------------------------------------------------------
(* keycloak_client.py: KeycloakClient                                      *)

Principals == {"developer", "admin"}

\* A key that a JSON object does not have.
Absent == -1

\* The token endpoint's JSON: access_token (a token id >= 1), refresh_token
\* and expires_in (either may be Absent).
TokenData(access, refresh, expires_in) ==
    [access_token |-> access, refresh_token |-> refresh, expires_in |-> expires_in]

NoTokenData == TokenData(0, Absent, Absent)

\* What the token endpoint answers: an HTTP status and, when the body is
\* JSON, the token data.
KcAnswer(status, json_ok, token_data) ==
    [status |-> status, json_ok |-> json_ok, token_data |-> token_data]

NoAnswer == KcAnswer(0, FALSE, NoTokenData)

\* The answers the server may give when it has issued `serial` tokens: a
\* rejection, a body that is no JSON, or the next token.
KcAnswers(serial, expires_opts) ==
    {KcAnswer(401, TRUE, NoTokenData), KcAnswer(HTTP_OK, FALSE, NoTokenData)}
    \cup {KcAnswer(HTTP_OK, TRUE, TokenData(serial + 1, r, e)) :
             r \in {Absent, serial + 1}, e \in expires_opts}

\* response.raise_for_status(); response.json()
KcRaises(answer) == answer.status >= 400 \/ ~answer.json_ok

CacheEntry(token_data, timestamp) ==
    [present |-> TRUE, token_data |-> token_data, timestamp |-> timestamp]

NoEntry == [present |-> FALSE, token_data |-> NoTokenData, timestamp |-> 0]

\* A mutant of authenticate: an entry already in the cache is kept.
authenticate_keeps_prior(cache, username, answer) ==
    IF answer.status >= 400 \/ ~answer.json_ok
    THEN [raised |-> TRUE, token_data |-> [access_token |-> 0, refresh_token |-> -1, expires_in |-> -1],
          cache |-> cache]
    ELSE [raised |-> FALSE, token_data |-> answer.token_data,
          cache |-> IF cache[username].present THEN cache
                    ELSE [cache EXCEPT ![username] =
                             [present |-> TRUE, token_data |-> answer.token_data,
                              timestamp |-> now]]]

\* A mutant of authenticate: a failed call drops the principal's entry.
authenticate_evicts_on_failure(cache, username, answer) ==
    IF answer.status >= 400 \/ ~answer.json_ok
    THEN [raised |-> TRUE, token_data |-> [access_token |-> 0, refresh_token |-> -1, expires_in |-> -1],
          cache |-> [cache EXCEPT ![username] =
                        [present |-> FALSE,
                         token_data |-> [access_token |-> 0, refresh_token |-> -1, expires_in |-> -1],
                         timestamp |-> 0]]]
    ELSE [raised |-> FALSE, token_data |-> answer.token_data,
          cache |-> [cache EXCEPT ![username] =
                        [present |-> TRUE, token_data |-> answer.token_data,
                         timestamp |-> now]]]

\* A mutant of authenticate: the cache holds one principal at a time.
authenticate_single_entry(cache, username, answer) ==
    IF answer.status >= 400 \/ ~answer.json_ok
    THEN [raised |-> TRUE, token_data |-> [access_token |-> 0, refresh_token |-> -1, expires_in |-> -1],
          cache |-> cache]
    ELSE [raised |-> FALSE, token_data |-> answer.token_data,
          cache |-> [u \in DOMAIN cache |->
                        IF u = username
                        THEN [present |-> TRUE, token_data |-> answer.token_data,
                              timestamp |-> now]
                        ELSE [present |-> FALSE,
                              token_data |-> [access_token |-> 0, refresh_token |-> -1,
                                              expires_in |-> -1],
                              timestamp |-> 0]]]

\* KeycloakClient.authenticate(username, password), given the endpoint's answer.
authenticate(cache, username, answer) ==
    IF KcRaises(answer)
    THEN [raised |-> TRUE, token_data |-> NoTokenData, cache |-> cache]
    ELSE [raised |-> FALSE, token_data |-> answer.token_data,
          cache |-> [cache EXCEPT ![username] = CacheEntry(answer.token_data, now)]]

EXPIRY_BUFFER == 30

\* token_data.get('expires_in', 0)
expires_in_or_0(token_data) ==
    IF token_data.expires_in = Absent THEN 0 ELSE token_data.expires_in

\* A mutant of cache_still_valid: no 30 second buffer.
cache_still_valid_no_buffer(entry) ==
    now - entry.timestamp < expires_in_or_0(entry.token_data)

\* The validity test of get_access_token:
\*   time.time() - timestamp < (expires_in - 30)
cache_still_valid(entry) ==
    now - entry.timestamp < expires_in_or_0(entry.token_data) - EXPIRY_BUFFER

\* Whether get_access_token answers from the cache.
cache_hit(cache, username, force_refresh) ==
    ~force_refresh /\ cache[username].present /\ cache_still_valid(cache[username])

\* KeycloakClient.get_access_token(username, password, force_refresh), given
\* the endpoint's answer should it authenticate.
get_access_token(cache, username, force_refresh, answer) ==
    IF cache_hit(cache, username, force_refresh)
    THEN [raised |-> FALSE, access_token |-> cache[username].token_data.access_token,
          cache |-> cache, auth_calls |-> 0]
    ELSE LET r == authenticate(cache, username, answer)
         IN  [raised |-> r.raised, access_token |-> r.token_data.access_token,
              cache |-> r.cache, auth_calls |-> 1]

\* The principal a refresh token was issued to, as far as the cache tells.
HolderOf(cache, token) ==
    CHOOSE u \in Principals :
        (\E v \in Principals : cache[v].present /\ cache[v].token_data.refresh_token = token)
        => (cache[u].present /\ cache[u].token_data.refresh_token = token)

\* A mutant of refresh_token: a rejected refresh falls back to a password
\* grant for the holder of the token.
refresh_token_with_fallback(cache, token, answer) ==
    IF answer.status >= 400 \/ ~answer.json_ok
    THEN [raised |-> FALSE,
          token_data |-> [access_token |-> token, refresh_token |-> token, expires_in |-> -1],
          cache |-> [cache EXCEPT ![HolderOf(cache, token)] =
                        [present |-> TRUE,
                         token_data |-> [access_token |-> token, refresh_token |-> token,
                                         expires_in |-> -1],
                         timestamp |-> now]],
          auth_calls |-> 1]
    ELSE [raised |-> FALSE, token_data |-> answer.token_data, cache |-> cache,
          auth_calls |-> 0]

\* KeycloakClient.refresh_token(refresh_token), given the endpoint's answer:
\* the response is returned; the cache is not touched and authenticate is
\* not called.
refresh_token(cache, token, answer) ==
    IF KcRaises(answer)
    THEN [raised |-> TRUE, token_data |-> NoTokenData, cache |-> cache, auth_calls |-> 0]
    ELSE [raised |-> FALSE, token_data |-> answer.token_data, cache |-> cache,
          auth_calls |-> 0]

\* An exp claim that is no number.
NonNumeric == -2

\* A JWT as the client sees it: whether jwt.decode accepts it and, if so,
\* the exp claim of its payload (Absent: no exp claim).
Jwt(decodes, exp) == [decodes |-> decodes, exp |-> exp]

NoJwt == Jwt(FALSE, Absent)

\* KeycloakClient.decode_token(token, verify).  With verify the JWKS is
\* fetched and then jwt.decode is called with signature verification but
\* without a key, which raises.
decode_token(token, verify) ==
    IF verify \/ ~token.decodes
    THEN [raised |-> TRUE, payload |-> [exp |-> Absent]]
    ELSE [raised |-> FALSE, payload |-> [exp |-> token.exp]]

\* payload.get('exp', 0)
exp_or_0(payload) == IF payload.exp = Absent THEN 0 ELSE payload.exp

\* The try block of is_token_valid: "raised" where it throws.
is_token_valid_try(token) ==
    LET d == decode_token(token, FALSE)
    IN  IF d.raised THEN "raised"
        ELSE IF exp_or_0(d.payload) = NonNumeric THEN "raised"    \* TypeError
        ELSE IF exp_or_0(d.payload) > now THEN "true" ELSE "false"

\* A mutant of is_token_valid: a token is still valid at its expiry instant.
is_token_valid_at_expiry(token) ==
    LET d == decode_token(token, FALSE)
    IN  IF d.raised \/ exp_or_0(d.payload) = NonNumeric THEN "false"
        ELSE IF exp_or_0(d.payload) >= now THEN "true" ELSE "false"

\* KeycloakClient.is_token_valid(token): any exception counts as invalid.
is_token_valid(token) ==
    IF is_token_valid_try(token) = "raised" THEN "false" ELSE is_token_valid_try(token)

----------------------------------------------------------------------------
(* The actions of SpecKC: calls on one KeycloakClient as the clock runs.   *)

\* The lifetimes the server grants in SpecKC: around the 30 second buffer.
KcExpiresOpts == {Absent, EXPIRY_BUFFER + 1, EXPIRY_BUFFER + 2}

\* The server's answers, as long as it may issue another token.
KcServer(expires_opts) ==
    {a \in KcAnswers(kc_serial, expires_opts) : KcRaises(a) \/ kc_serial < MaxTokens}

Issued(answer) == IF KcRaises(answer) THEN kc_serial ELSE kc_serial + 1

KcCall(op, username, force_refresh, auth_calls, raised, access_token) ==
    [op |-> op, username |-> username, force_refresh |-> force_refresh,
     at |-> now, before |-> kc_cache[username], auth_calls |-> auth_calls,
     raised |-> raised, access_token |-> access_token]

KcInit ==
    /\ kc_cache = [u \in Principals |-> NoEntry]
    /\ kc_serial = 0
    /\ kc_last = [op |-> "none", username |-> "", force_refresh |-> FALSE,
                  at |-> 0, before |-> NoEntry,
                  auth_calls |-> 0, raised |-> FALSE, access_token |-> 0]

KcAuthenticate ==
    \E u \in Principals, answer \in KcServer(KcExpiresOpts) :
        LET r == authenticate(kc_cache, u, answer)
        IN  /\ kc_cache' = r.cache
            /\ kc_serial' = Issued(answer)
            /\ kc_last' = KcCall("authenticate", u, FALSE, 1, r.raised,
                                 r.token_data.access_token)
            /\ UNCHANGED <<jwt, stsVars, clockVars, expVars, mgrVars>>

KcGetAccessToken ==
    \E u \in Principals, force \in BOOLEAN :
    \E answer \in IF cache_hit(kc_cache, u, force)
                  THEN {NoAnswer} ELSE KcServer(KcExpiresOpts) :
        LET r == get_access_token(kc_cache, u, force, answer)
        IN  /\ kc_cache' = r.cache
            /\ kc_serial' = IF r.auth_calls = 0 THEN kc_serial ELSE Issued(answer)
            /\ kc_last' = KcCall("get_access_token", u, force, r.auth_calls,
                                 r.raised, r.access_token)
            /\ UNCHANGED <<jwt, stsVars, clockVars, expVars, mgrVars>>

\* The tokens callers hand to decode_token and is_token_valid: a string that
\* is no JWT, or a JWT with any exp claim or none.
Jwts ==
    {NoJwt} \cup {Jwt(TRUE, e) : e \in {Absent, NonNumeric} \cup 0..MaxTime}

\* The record of a decode_token or is_token_valid call on the token at hand.
JwtCall(op, verify, raised, result) ==
    [op |-> op, username |-> "", at |-> now, verify |-> verify,
     raised |-> raised, result |-> result]

\* client.refresh_token(t), t a refresh token an earlier response carried
KcRefreshToken ==
    \E u \in Principals, answer \in KcServer(KcExpiresOpts) :
        /\ kc_cache[u].present
        /\ kc_cache[u].token_data.refresh_token # Absent
        /\ LET r == refresh_token(kc_cache, kc_cache[u].token_data.refresh_token, answer)
           IN  /\ kc_cache' = r.cache
               /\ kc_serial' = Issued(answer)
               /\ kc_last' = KcCall("refresh_token", u, FALSE, r.auth_calls, r.raised,
                                    r.token_data.access_token)
               /\ UNCHANGED <<jwt, stsVars, clockVars, expVars, mgrVars>>

\* client.decode_token(token, verify)
KcDecodeToken ==
    \E verify \in BOOLEAN :
        LET d == decode_token(jwt, verify)
        IN  /\ kc_last' = JwtCall("decode_token", verify, d.raised,
                                  IF d.raised THEN "none" ELSE "payload")
            /\ UNCHANGED <<kc_cache, kc_serial, jwt, stsVars, clockVars, expVars, mgrVars>>

\* client.is_token_valid(token)
KcIsTokenValid ==
    /\ kc_last' = JwtCall("is_token_valid", FALSE,
                          is_token_valid(jwt) = "raised", is_token_valid(jwt))
    /\ UNCHANGED <<kc_cache, kc_serial, jwt, stsVars, clockVars, expVars, mgrVars>>

----------------------------------------------------------------------------
(* Claims about KeycloakClient (SpecKC).                                   *)

\* C3: get_access_token returns the cached access token, without calling
\* authenticate, when force_refresh is false and the entry fetched at t0 with
\* expires_in T has now - t0 < T - 30; in every other case it calls
\* authenticate exactly once and what it returns is the newly issued token.
C3_ReadThroughCache ==
    kc_last.op = "get_access_token"
    => LET e == kc_last.before
           fresh == /\ e.present
                    /\ e.token_data.expires_in # Absent
                    /\ kc_last.at - e.timestamp < e.token_data.expires_in - 30
       IN  IF ~kc_last.force_refresh /\ fresh
           THEN /\ kc_last.auth_calls = 0
                /\ ~kc_last.raised
                /\ kc_last.access_token = e.token_data.access_token
           ELSE /\ kc_last.auth_calls = 1
                /\ ~kc_last.raised =>
                      /\ kc_last.access_token = kc_serial
                      /\ e.token_data.access_token < kc_serial

\* C3 witness: an entry exactly 30 seconds before its expiry is not served
\* from the cache: get_access_token authenticates and returns the new token.
C3_Witness ==
    /\ kc_last.op = "get_access_token"
    /\ ~kc_last.force_refresh
    /\ LET e == kc_last.before
       IN  /\ e.present
           /\ e.token_data.expires_in # Absent
           /\ kc_last.at - e.timestamp = e.token_data.expires_in - 30
    /\ kc_last.auth_calls = 1
    /\ ~kc_last.raised
    /\ kc_last.access_token = kc_serial

----------------------------------------------------------------------------
(* demo_token_lifecycle.py: TokenLifecycleManager                          *)
(*                                                                         *)
(* The manager's methods call three backends whose answers are not the     *)
(* manager's to choose.  Each method is an operator from a world (the      *)
(* manager's fields, its KeycloakClient's cache, what the servers have     *)
(* issued, the log of backend calls) to the set of worlds it may end in,   *)
(* one per combination of answers, each marked raised or not.              *)

USERNAME == "developer"

None == 0

\* boto3.client('s3', endpoint_url=..., **credentials.to_aws_config()): the
\* client keeps the key, the secret and the session token it signs with.
\* expires is not a field of the client: it is the instant at which the
\* STS stops honouring that credential set.
S3Client(creds, expires) ==
    [aws_access_key_id |-> creds.access_key_id,
     aws_secret_access_key |-> creds.secret_access_key,
     aws_session_token |-> creds.session_token,
     expires |-> expires]

NoClient == [aws_access_key_id |-> None, aws_secret_access_key |-> None,
             aws_session_token |-> None, expires |-> 0]

\* No STSCredentials object.
NullCredentials == STSCredentials(None, None, None, NoString)

\* TokenLifecycleManager.__init__
NewManager ==
    [oidc_token |-> None, oidc_token_expires_at |-> Absent, refresh_token |-> None,
     s3_credentials |-> NullCredentials, s3_client |-> NoClient]

\* resp is the last token response the manager received in the call, if any.
World(m, cache, serial, issued, lg, raised) ==
    [mgr |-> m, cache |-> cache, serial |-> serial, issued |-> issued,
     log |-> lg, raised |-> raised, resp |-> NoTokenData]

\* The kinds of backend call the log counts: calls of the token endpoint
\* (password grant, refresh grant), exchanges at the STS, storage calls, and
\* the renewals perform_s3_operation starts from its except clause.
Events == {"authenticate", "refresh", "exchange", "storage", "renew"}

EmptyLog == [e \in Events |-> 0]

Logged(w, event) == [w EXCEPT !.log[event] = @ + 1]

Raise(w) == [w EXCEPT !.raised = TRUE]

DEFAULT_EXPIRES_IN == 300

\* token_data.get('expires_in', 300)
expires_in_or_default(token_data) ==
    IF token_data.expires_in = Absent THEN DEFAULT_EXPIRES_IN ELSE token_data.expires_in

\* datetime.now(): the local wall clock, naive.
local_now == now + tz

\* The lifetimes the Keycloak server grants the manager's tokens.
MgrExpiresOpts == {Absent} \cup 1..MaxLife

\* The token endpoint's answers in world w.
MgrKcServer(w) ==
    {a \in KcAnswers(w.serial, MgrExpiresOpts) : KcRaises(a) \/ w.serial < MaxTokens}

\* TokenLifecycleManager.authenticate(), given the endpoint's answer.
mgr_authenticate(w, answer) ==
    LET r == authenticate(w.cache, USERNAME, answer)
        td == r.token_data
    IN  IF r.raised
        THEN Raise(Logged(w, "authenticate"))
        ELSE LET w1 == [Logged(w, "authenticate") EXCEPT
                            !.cache = r.cache, !.serial = td.access_token,
                            !.resp = td,
                            !.mgr.oidc_token = td.access_token]
             IN  IF td.refresh_token = Absent
                 THEN Raise(w1)                       \* KeyError: 'refresh_token'
                 ELSE [w1 EXCEPT
                          !.mgr.refresh_token = td.refresh_token,
                          !.mgr.oidc_token_expires_at =
                              local_now + expires_in_or_default(td)]

AuthenticateOutcomes(w) == {mgr_authenticate(w, a) : a \in MgrKcServer(w)}

\* KeycloakClient.refresh_token(refresh_token) and the try block around it
\* in refresh_oidc_token, given the endpoint's answer; raised: the except
\* clause is to run.
mgr_refresh_try(w, answer) ==
    LET td == answer.token_data
    IN  IF KcRaises(answer)
        THEN Raise(Logged(w, "refresh"))
        ELSE [Logged(w, "refresh") EXCEPT
                 !.serial = td.access_token,
                 !.resp = td,
                 !.mgr.oidc_token = td.access_token,
                 !.mgr.refresh_token =
                     IF td.refresh_token = Absent THEN @ ELSE td.refresh_token,
                 !.mgr.oidc_token_expires_at = local_now + expires_in_or_default(td)]

\* A mutant of RefreshOidcTokenOutcomes: a failed refresh is not followed
\* by authenticate.
RefreshOidcTokenOutcomes_no_fallback(w) ==
    IF w.mgr.refresh_token = 0
    THEN {mgr_authenticate(w, a) : a \in MgrKcServer(w)}
    ELSE {mgr_refresh_try(w, a) : a \in MgrKcServer(w)}

\* TokenLifecycleManager.refresh_oidc_token()
RefreshOidcTokenOutcomes(w) ==
    IF w.mgr.refresh_token = None
    THEN AuthenticateOutcomes(w)
    ELSE UNION {LET t == mgr_refresh_try(w, a)
                IN  IF t.raised
                    THEN AuthenticateOutcomes([t EXCEPT !.raised = FALSE])
                    ELSE {t} : a \in MgrKcServer(w)}

\* The STS's answers to an exchange in world w: a failure, or the next
\* credential set, valid for `life` seconds, with its Expiration sent as a
\* timestamp ending in Z.
StsAnswers(w) ==
    {[ok |-> FALSE, life |-> 0]}
    \cup {[ok |-> TRUE, life |-> l] :
             l \in IF w.issued < MaxCreds THEN 1..MaxLife ELSE {}}

\* The try block of get_s3_credentials, given the STS's answer and whether
\* boto3.client() succeeds.
mgr_exchange(w, answer, client_ok) ==
    IF ~answer.ok
    THEN Raise(Logged(w, "exchange"))
    ELSE LET id == w.issued + 1
             creds == STSCredentials(id, id, id, IsoString("zulu", now + answer.life, 0))
             w1 == [Logged(w, "exchange") EXCEPT
                       !.issued = id,
                       !.mgr.s3_credentials = creds]
         IN  IF client_ok
             THEN [w1 EXCEPT !.mgr.s3_client = S3Client(creds, now + answer.life)]
             ELSE Raise(w1)

\* The test of get_s3_credentials:
\*   not self.oidc_token or datetime.now() >= self.oidc_token_expires_at
oidc_token_expired(m) ==
    m.oidc_token = None \/ local_now >= m.oidc_token_expires_at

\* TokenLifecycleManager.get_s3_credentials()
GetS3CredentialsOutcomes(w) ==
    LET refreshed ==
            IF w.mgr.oidc_token # None /\ w.mgr.oidc_token_expires_at = Absent
            THEN {Raise(w)}                           \* TypeError: datetime >= None
            ELSE IF oidc_token_expired(w.mgr)
            THEN RefreshOidcTokenOutcomes(w)
            ELSE {w}
    IN  UNION {IF r.raised THEN {r}
               ELSE {mgr_exchange(r, a, c) : a \in StsAnswers(r), c \in BOOLEAN} :
               r \in refreshed}

\* A mutant of credentials_stale: stored credentials are never looked at again.
credentials_stale_only_when_missing(m) == m.s3_credentials = NullCredentials

\* The test of ensure_valid_credentials:
\*   not self.s3_credentials or self.s3_credentials.is_expired()
credentials_stale(m) ==
    m.s3_credentials = NullCredentials \/ is_expired(m.s3_credentials.expiration) = "true"

\* TokenLifecycleManager.ensure_valid_credentials()
EnsureValidCredentialsOutcomes(w) ==
    IF credentials_stale(w.mgr) THEN GetS3CredentialsOutcomes(w) ELSE {w}

\* The operation names perform_s3_operation knows, and one it does not.
KnownOps == {"list_buckets", "upload_object", "download_object"}

\* The operation names the callers pass: a known one and an unknown one.
Operations == {"list_buckets", "delete_object"}

\* The error codes perform_s3_operation renews and retries on.
RetryCodes == {"ExpiredToken", "InvalidToken", "AccessDenied"}

\* What a storage call may end in: success, a ClientError with one of these
\* codes, or an exception that is no ClientError.
StorageAnswers == {"ok", "exception", "NoSuchBucket"} \cup RetryCodes

\* How one invocation of perform_s3_operation ends: it returns, it raises,
\* or (end = "retry") it has renewed and is about to call itself.  result
\* says what became of the operation, stored is the storage call it made.
FrameEnd(w, end, result, code, stored) ==
    [w |-> [w EXCEPT !.raised = FALSE], end |-> end, result |-> result,
     code |-> code, stored |-> stored]

\* A storage call: the key id it was signed with and the seconds that
\* credential set still had to live when the call was made (0 or less: it had
\* expired).
StorageCall(issued, key, left) == [issued |-> issued, key |-> key, left |-> left]

NoStorageCall == StorageCall(FALSE, None, 0)

\* A mutant of ClientErrorOutcomes: credentials are renewed whatever the
\* error code, the operation is retried on the three codes only.
ClientErrorOutcomes_renew_always(w, code, stored) ==
    {[w |-> [g EXCEPT !.raised = FALSE],
      end |-> IF code \notin {"ExpiredToken", "InvalidToken", "AccessDenied"}
              THEN "returned" ELSE IF g.raised THEN "raised" ELSE "retry",
      result |-> "failed", code |-> code, stored |-> stored] :
        g \in GetS3CredentialsOutcomes([w EXCEPT !.log["renew"] = @ + 1])}

\* The except ClientError clause, after a storage call that answered `code`.
ClientErrorOutcomes(w, code, stored) ==
    IF code \in RetryCodes
    THEN {FrameEnd(g, IF g.raised THEN "raised" ELSE "retry", "failed", code, stored) :
             g \in GetS3CredentialsOutcomes(Logged(w, "renew"))}
    ELSE {FrameEnd(w, "returned", "failed", code, stored)}

\* TokenLifecycleManager.perform_s3_operation(operation_name), up to the
\* point where it returns, raises or calls itself.
PerformS3OperationOutcomes(w, operation_name) ==
    UNION {
        IF e.raised
        THEN {FrameEnd(e, "returned", "exception", "", NoStorageCall)}
        ELSE IF operation_name \notin KnownOps
        THEN {FrameEnd(e, "returned", "unknown_op", "", NoStorageCall)}
        ELSE IF e.mgr.s3_client = NoClient
        THEN {FrameEnd(e, "returned", "exception", "", NoStorageCall)}  \* None has no method
        ELSE LET client == e.mgr.s3_client
                 stored == StorageCall(TRUE, client.aws_access_key_id,
                                       client.expires - now)
                 s == Logged(e, "storage")
             IN  UNION {
                   IF a = "ok" THEN {FrameEnd(s, "returned", "ok", "", stored)}
                   ELSE IF a = "exception"
                   THEN {FrameEnd(s, "returned", "exception", "", stored)}
                   ELSE ClientErrorOutcomes(s, a, stored) : a \in StorageAnswers}
        : e \in EnsureValidCredentialsOutcomes(w)}

----------------------------------------------------------------------------
(* The actions of Spec: calls on one TokenLifecycleManager as the clock    *)
(* runs.                                                                   *)

Call(status, op, depth, result, code) ==
    [status |-> status, op |-> op, depth |-> depth, result |-> result, code |-> code]

NoCall == Call("idle", "", 0, "none", "")

Threads == {1, 2}

\* Where a thread is: "idle" before its call, "check" at the test of
\* ensure_valid_credentials, then in get_s3_credentials "token" (the test
\* of the identity token), "exchange" (the request to the STS), "store"
\* (self.s3_credentials = ...), "config" (boto3.client(...) on the stored
\* credentials), "client" (self.s3_client = ...); "done" when the call has
\* returned and "raised" when it has raised.  resp is the credential set
\* the STS answered with, cfg the one the thread built its client from.
NoRace ==
    [pc |-> [t \in Threads |-> "idle"],
     resp |-> [t \in Threads |-> NullCredentials],
     cfg |-> [t \in Threads |-> NullCredentials]]

\* The response an identity token came from: the token and the expiry
\* instant that response gives it (the local time it arrived plus its
\* expires_in, 300 when it has none).
Origin(token, expires_at) == [token |-> token, expires_at |-> expires_at]

NoOrigin == Origin(None, Absent)

\* The record of a call that dealt with the identity token: which method,
\* whether it raised, the backend calls it made, the last token response it
\* received; origin is the response the held identity token came from.
TokenCall(op, raised, lg, resp, origin) ==
    [op |-> op, raised |-> raised, log |-> lg, resp |-> resp, origin |-> origin]

NoTokenCall == TokenCall("none", FALSE, EmptyLog, NoTokenData, NoOrigin)

MgrInit ==
    /\ mgr = NewManager
    /\ sts_serial = 0
    /\ call = NoCall
    /\ log = EmptyLog
    /\ last_storage = NoStorageCall
    /\ race = NoRace
    /\ token_call = NoTokenCall

CurrentWorld(lg) == World(mgr, kc_cache, kc_serial, sts_serial, lg, FALSE)

Commit(w) ==
    /\ mgr' = w.mgr
    /\ kc_cache' = w.cache
    /\ kc_serial' = w.serial
    /\ sts_serial' = w.issued

\* The record of a finished perform_s3_operation call is kept until the
\* next call on the manager or the next tick of the clock.
Forget ==
    /\ call' = NoCall
    /\ log' = EmptyLog
    /\ last_storage' = NoStorageCall

\* A second passes (time.sleep in the demos, or the time a call takes).
Tick ==
    /\ now < MaxTime
    /\ now' = now + 1
    /\ IF call.status = "running" THEN UNCHANGED <<call, log, last_storage>> ELSE Forget
    /\ UNCHANGED <<tz, mgr, sts_serial, race, token_call, stsVars, expVars, kcVars>>

\* manager.authenticate(), as the demos call it
Authenticate ==
    /\ call.status # "running"
    /\ \E w \in AuthenticateOutcomes(CurrentWorld(EmptyLog)) : Commit(w)
    /\ Forget
    /\ UNCHANGED <<kc_last, jwt, race, token_call, stsVars, clockVars, expVars>>

\* manager.get_s3_credentials(), as the demos call it
GetS3Credentials ==
    /\ call.status # "running"
    /\ \E w \in GetS3CredentialsOutcomes(CurrentWorld(EmptyLog)) : Commit(w)
    /\ Forget
    /\ UNCHANGED <<kc_last, jwt, race, token_call, stsVars, clockVars, expVars>>

\* One invocation of perform_s3_operation ending in f.
Invoke(f, op, depth) ==
    /\ Commit(f.w)
    /\ log' = f.w.log
    /\ last_storage' = IF f.stored.issued \/ depth = 1 THEN f.stored ELSE last_storage
    /\ call' = Call(IF f.end = "retry" THEN "running" ELSE f.end, op, depth,
                    f.result, f.code)
    /\ UNCHANGED <<kc_last, jwt, race, token_call, stsVars, clockVars, expVars>>

\* manager.perform_s3_operation(op), called from outside
PerformS3Operation ==
    /\ call.status # "running"
    /\ \E op \in Operations :
       \E f \in PerformS3OperationOutcomes(CurrentWorld(EmptyLog), op) : Invoke(f, op, 1)

\* self.perform_s3_operation(operation_name), called from the except clause
RetryS3Operation ==
    /\ call.status = "running"
    /\ call.depth < MaxDepth
    /\ \E f \in PerformS3OperationOutcomes(CurrentWorld(log), call.op) :
          Invoke(f, call.op, call.depth + 1)

----------------------------------------------------------------------------
(* Two threads calling ensure_valid_credentials on one manager (SpecRace). *)
(* A thread switch may fall between any two statements, and between the    *)
(* evaluation of a right-hand side and the assignment of its value; the    *)
(* refresh of the identity token is taken as one step.                     *)

At(t, pc) == race.pc[t] = pc

Goto(t, pc) == [race EXCEPT !.pc[t] = pc]

\* A thread calls manager.ensure_valid_credentials()
RaceCall ==
    \E t \in Threads :
        /\ At(t, "idle")
        /\ race' = Goto(t, "check")
        /\ UNCHANGED <<mgr, sts_serial, call, token_call, log, last_storage,
                       stsVars, clockVars, expVars, kcVars>>

\* if not self.s3_credentials or self.s3_credentials.is_expired():
RaceCheck ==
    \E t \in Threads :
        /\ At(t, "check")
        /\ race' = Goto(t, IF credentials_stale(mgr) THEN "token" ELSE "done")
        /\ UNCHANGED <<mgr, sts_serial, call, token_call, log, last_storage,
                       stsVars, clockVars, expVars, kcVars>>

\* if not self.oidc_token or datetime.now() >= self.oidc_token_expires_at:
\*     self.refresh_oidc_token()
RaceToken ==
    \E t \in Threads :
        /\ At(t, "token")
        /\ \E w \in IF mgr.oidc_token # None /\ mgr.oidc_token_expires_at = Absent
                    THEN {Raise(CurrentWorld(log))}   \* TypeError: datetime >= None
                    ELSE IF oidc_token_expired(mgr)
                    THEN RefreshOidcTokenOutcomes(CurrentWorld(log))
                    ELSE {CurrentWorld(log)} :
              /\ Commit(w)
              /\ log' = w.log
              /\ race' = Goto(t, IF w.raised THEN "raised" ELSE "exchange")
        /\ UNCHANGED <<call, token_call, last_storage, kc_last, jwt, stsVars, clockVars, expVars>>

\* self.sts_client.assume_role_with_web_identity(...): the STS answers
RaceExchange ==
    \E t \in Threads :
        /\ At(t, "exchange")
        /\ \E answer \in StsAnswers(CurrentWorld(log)) :
              IF answer.ok
              THEN /\ sts_serial' = sts_serial + 1
                   /\ race' = [Goto(t, "store") EXCEPT !.resp[t] =
                                  STSCredentials(sts_serial + 1, sts_serial + 1, sts_serial + 1,
                                                 IsoString("zulu", now + answer.life, 0))]
              ELSE /\ sts_serial' = sts_serial
                   /\ race' = Goto(t, "raised")
        /\ log' = [log EXCEPT !["exchange"] = @ + 1]
        /\ UNCHANGED <<mgr, call, token_call, last_storage, stsVars, clockVars, expVars, kcVars>>

\* self.s3_credentials = <the credentials returned>
RaceStoreCredentials ==
    \E t \in Threads :
        /\ At(t, "store")
        /\ mgr' = [mgr EXCEPT !.s3_credentials = race.resp[t]]
        /\ race' = Goto(t, "config")
        /\ UNCHANGED <<sts_serial, call, token_call, log, last_storage,
                       stsVars, clockVars, expVars, kcVars>>

\* boto3.client('s3', ..., **self.s3_credentials.to_aws_config()): the
\* client is built from the credentials stored at this moment, or it raises
RaceBuildClient ==
    \E t \in Threads, client_ok \in BOOLEAN :
        /\ At(t, "config")
        /\ race' = IF client_ok
                   THEN [Goto(t, "client") EXCEPT !.cfg[t] = mgr.s3_credentials]
                   ELSE Goto(t, "raised")
        /\ UNCHANGED <<mgr, sts_serial, call, token_call, log, last_storage,
                       stsVars, clockVars, expVars, kcVars>>

\* self.s3_client = <the client built>
RaceStoreClient ==
    \E t \in Threads :
        /\ At(t, "client")
        /\ mgr' = [mgr EXCEPT !.s3_client =
                       S3Client(race.cfg[t], race.cfg[t].expiration.wall)]
        /\ race' = Goto(t, "done")
        /\ UNCHANGED <<sts_serial, call, token_call, log, last_storage,
                       stsVars, clockVars, expVars, kcVars>>

\* Both calls are over.
RaceOver == \A t \in Threads : race.pc[t] \in {"done", "raised"}

\* A storage call after the race, as perform_s3_operation makes it when
\* ensure_valid_credentials finds nothing to renew: it is signed by the
\* client in place.
RaceUse ==
    /\ RaceOver
    /\ ~credentials_stale(mgr)
    /\ mgr.s3_client # NoClient
    /\ last_storage' = StorageCall(TRUE, mgr.s3_client.aws_access_key_id,
                                   mgr.s3_client.expires - now)
    /\ UNCHANGED <<mgr, sts_serial, call, token_call, log, race,
                   stsVars, clockVars, expVars, kcVars>>

\* The manager before the race: new, or after a get_s3_credentials call
\* that returned.
RaceStarts ==
    LET new == World(NewManager, [u \in Principals |-> NoEntry], 0, 0, EmptyLog, FALSE)
    IN  {new} \cup {w \in GetS3CredentialsOutcomes(new) : ~w.raised}

----------------------------------------------------------------------------
(* Calls that deal with the identity token, one after the other, on one    *)
(* manager (SpecToken, SpecExchange).                                      *)

\* The response the identity token held after a call ending in world w came
\* from: the last response the call received, or the one it came from before.
OriginAfter(w) ==
    IF w.resp = NoTokenData
    THEN token_call.origin
    ELSE Origin(w.resp.access_token, local_now + expires_in_or_default(w.resp))

\* A call of method op ending in world w.
TokenStep(op, w) ==
    /\ Commit(w)
    /\ token_call' = TokenCall(op, w.raised, w.log, w.resp, OriginAfter(w))
    /\ UNCHANGED <<call, log, last_storage, race, kc_last, jwt,
                   stsVars, clockVars, expVars>>

\* manager.authenticate()
TokenAuthenticate ==
    \E w \in AuthenticateOutcomes(CurrentWorld(EmptyLog)) :
        TokenStep("authenticate", w)

\* manager.refresh_oidc_token()
TokenRefresh ==
    \E w \in RefreshOidcTokenOutcomes(CurrentWorld(EmptyLog)) :
        TokenStep("refresh_oidc_token", w)

\* manager.get_s3_credentials()
TokenExchange ==
    \E w \in GetS3CredentialsOutcomes(CurrentWorld(EmptyLog)) :
        TokenStep("get_s3_credentials", w)

\* The lifetimes of an identity token the manager may hold from the start:
\* just above the 30 seconds of KeycloakClient's buffer.
HeldLifetimes == {EXPIRY_BUFFER + 1, EXPIRY_BUFFER + 2}

\* The manager after an authenticate() that succeeded EXPIRY_BUFFER seconds
\* before the clock's origin with a token of lifetime expires_in.
HeldSince(expires_in) ==
    LET t0 == 0 - EXPIRY_BUFFER
        td == TokenData(1, 1, expires_in)
    IN  [mgr |-> [NewManager EXCEPT !.oidc_token = td.access_token,
                                    !.refresh_token = td.refresh_token,
                                    !.oidc_token_expires_at = t0 + expires_in],
         cache |-> [u \in Principals |->
                       IF u = USERNAME THEN CacheEntry(td, t0) ELSE NoEntry],
         serial |-> 1,
         origin |-> Origin(td.access_token, t0 + expires_in)]

\* The manager before the calls: new, or holding such a token.
TokenStarts ==
    {[mgr |-> NewManager, cache |-> [u \in Principals |-> NoEntry], serial |-> 0,
      origin |-> NoOrigin]}
    \cup {HeldSince(e) : e \in HeldLifetimes}

----------------------------------------------------------------------------
(* The specifications.                                                     *)

StsIdle ==
    /\ sts_response = [status |-> 0, wellformed |-> FALSE, root |-> NoElem]
    /\ sts_result = NotCalled
    /\ sts_called = "none"

ExpIdle == exp_string = NoString /\ exp_result = "none"

ClockZero == now = 0 /\ tz = 0

JwtIdle == jwt = NoJwt

InitSTS == StsInit /\ ClockZero /\ ExpIdle /\ KcInit /\ JwtIdle /\ MgrInit

NextSTS == AssumeRoleWithWebIdentity \/ ParseAssumeRoleResponse

SpecSTS == InitSTS /\ [][NextSTS]_vars

InitExpiry ==
    /\ ExpInit
    /\ now \in 0..MaxTime
    /\ tz \in Offsets
    /\ StsIdle /\ KcInit /\ JwtIdle /\ MgrInit

NextExpiry == IsExpired

SpecExpiry == InitExpiry /\ [][NextExpiry]_vars

InitKC == KcInit /\ JwtIdle /\ ClockZero /\ StsIdle /\ ExpIdle /\ MgrInit

NextKC ==
    \/ KcAuthenticate
    \/ KcGetAccessToken
    \/ KcRefreshToken
    \/ KcDecodeToken
    \/ KcIsTokenValid
    \/ Tick

SpecKC == InitKC /\ [][NextKC]_vars

Init == MgrInit /\ KcInit /\ JwtIdle /\ ClockZero /\ StsIdle /\ ExpIdle

Next == Authenticate \/ GetS3Credentials \/ PerformS3Operation \/ RetryS3Operation \/ Tick

Spec == Init /\ [][Next]_vars

InitJwt ==
    /\ jwt \in Jwts
    /\ KcInit /\ ClockZero /\ StsIdle /\ ExpIdle /\ MgrInit

NextJwt == KcDecodeToken \/ KcIsTokenValid \/ Tick

SpecJwt == InitJwt /\ [][NextJwt]_vars

InitRace ==
    /\ JwtIdle /\ ClockZero /\ StsIdle /\ ExpIdle
    /\ \E w \in RaceStarts :
          /\ mgr = w.mgr
          /\ kc_cache = w.cache
          /\ kc_serial = w.serial
          /\ sts_serial = w.issued
    /\ kc_last = [op |-> "none", username |-> "", force_refresh |-> FALSE,
                  at |-> 0, before |-> NoEntry,
                  auth_calls |-> 0, raised |-> FALSE, access_token |-> 0]
    /\ call = NoCall
    /\ log = EmptyLog
    /\ last_storage = NoStorageCall
    /\ race = NoRace
    /\ token_call = NoTokenCall

NextRace ==
    \/ RaceCall
    \/ RaceCheck
    \/ RaceToken
    \/ RaceExchange
    \/ RaceStoreCredentials
    \/ RaceBuildClient
    \/ RaceStoreClient
    \/ RaceUse
    \/ Tick

SpecRace == InitRace /\ [][NextRace]_vars

InitToken ==
    /\ JwtIdle /\ ClockZero /\ StsIdle /\ ExpIdle
    /\ \E st \in TokenStarts :
          /\ mgr = st.mgr
          /\ kc_cache = st.cache
          /\ kc_serial = st.serial
          /\ token_call = [NoTokenCall EXCEPT !.origin = st.origin]
    /\ kc_last = [op |-> "none", username |-> "", force_refresh |-> FALSE,
                  at |-> 0, before |-> NoEntry,
                  auth_calls |-> 0, raised |-> FALSE, access_token |-> 0]
    /\ sts_serial = 0
    /\ call = NoCall
    /\ log = EmptyLog
    /\ last_storage = NoStorageCall
    /\ race = NoRace

NextToken == TokenAuthenticate \/ TokenRefresh \/ Tick

SpecToken == InitToken /\ [][NextToken]_vars

NextExchange == TokenExchange \/ Tick

SpecExchange == InitToken /\ [][NextExchange]_vars

----------------------------------------------------------------------------
(* Claims about TokenLifecycleManager (Spec).                              *)

\* C1 (as claimed): one perform_s3_operation call issues at most 2 storage
\* calls and at most 1 renewal triggered by a failed storage call.
C1_RetriedOnce == log["storage"] <= 2 /\ log["renew"] <= 1

\* C2 (as claimed): no storage call is issued with a credential set that is
\* missing or, at the time of the call, already expired.
C2_NoCallWithExpiredCredentials ==
    last_storage.issued => (last_storage.key # None /\ last_storage.left > 0)

\* C4 (as claimed): a perform_s3_operation call whose storage operation
\* failed for good does not return normally: the failure reaches the caller
\* as an error.
C4_TerminalFailureSurfaced ==
    (call.status \in {"returned", "raised"} /\ call.result = "failed")
    => call.status = "raised"

\* C11 (as claimed): when perform_s3_operation has renewed after an
\* authorization failure and is about to retry, a new identity token was
\* obtained (by refresh or by re-authentication) for that renewal.
C11_RenewalForcesTokenFetch ==
    call.status = "running" => log["authenticate"] + log["refresh"] >= 1

\* The end-to-end scenario of C12, scaled to the clock of the model: the
\* manager authenticated at t0 with expires_in T, exchanged at once for
\* credentials that last until t0 + T, and it is now t0 + T + 1.
C12_Scenario ==
    LET e == kc_cache[USERNAME]
        expiry == e.timestamp + e.token_data.expires_in
    IN  /\ call.status # "running"
        /\ e.present
        /\ e.token_data.expires_in # Absent
        /\ now = expiry + 1
        /\ mgr.oidc_token = e.token_data.access_token
        /\ mgr.refresh_token # None
        /\ mgr.oidc_token_expires_at = expiry + tz
        /\ mgr.s3_credentials.expiration = IsoString("zulu", expiry, 0)
        /\ mgr.s3_client = S3Client(mgr.s3_credentials, expiry)

\* A perform_s3_operation call made from outside that returns with its
\* operation done.
C12_CallSucceeds ==
    call'.status = "returned" /\ call'.depth = 1 /\ call'.result = "ok"

C13_ClientBuiltFromStoredCredentials ==
    /\ mgr.s3_client.aws_access_key_id = mgr.s3_credentials.access_key_id
    /\ mgr.s3_client.aws_secret_access_key = mgr.s3_credentials.secret_access_key
    /\ mgr.s3_client.aws_session_token = mgr.s3_credentials.session_token

\* C17 (as claimed): a perform_s3_operation call whose renewal before the
\* operation failed (backend calls were made for it, and no storage call
\* followed) does not return normally: the failure reaches the caller.
C17_RenewalFailureNotDropped ==
    (/\ call.depth = 1
     /\ call.result = "exception"
     /\ log["storage"] = 0
     /\ log["authenticate"] + log["refresh"] + log["exchange"] >= 1)
    => call.status = "raised"

------------------------------------------------------------\* C24: in perform_s3_operation a storage failure whose code is none of
\* ExpiredToken, InvalidToken, AccessDenied starts no renewal and no retry:
\* the invocation returns having made exactly one storage call and, beyond
\* the exchange ensure_valid_credentials makes when the credentials are
\* stale, no backend call; with credentials that were not stale the manager's
\* fields, the token cache and what the servers have issued are unchanged.
\* An unknown operation name makes no storage call.
C24_OtherFailuresChangeNothing ==
    [][(call'.status = "returned" /\ now' = now)
       => LET before == IF call.status = "running" THEN log ELSE EmptyLog
              stale == credentials_stale(mgr)
          IN  /\ (call'.result = "failed" /\ call'.code \notin RetryCodes)
                   => /\ log'["storage"] = before["storage"] + 1
                      /\ log'["renew"] = before["renew"]
                      /\ log'["exchange"] = before["exchange"] + (IF stale THEN 1 ELSE 0)
                      /\ last_storage'.issued
                      /\ ~stale => /\ mgr' = mgr
                                   /\ kc_cache' = kc_cache
                                   /\ kc_serial' = kc_serial
                                   /\ sts_serial' = sts_serial
                                   /\ log'["authenticate"] = before["authenticate"]
                                   /\ log'["refresh"] = before["refresh"]
              /\ call'.result = "unknown_op"
                   => /\ log'["storage"] = 0
                      /\ log'["renew"] = 0
                      /\ ~last_storage'.issued
      ]_vars

\* C24 witness: a call made with credentials in place ended on NoSuchBucket
\* after one storage call, with no exchange and no renewal.
C24_Witness ==
    /\ call.status = "returned"
    /\ call.result = "failed"
    /\ call.code = "NoSuchBucket"
    /\ call.depth = 1
    /\ log["storage"] = 1
    /\ log["exchange"] = 0
    /\ log["renew"] = 0
    /\ mgr.s3_credentials # NullCredentials

----------------
(* Further claims about KeycloakClient (SpecKC, SpecJwt).                  *)

\* C14: a step that is an authenticate call either issued a token, and then
\* did not raise and the principal's entry is that token with the time of
\* the call while every other entry is as it was; or it issued none, and then
\* it raised and the cache is exactly as it was.
C14_AuthenticateStoresOrLeaves ==
    [][(kc_last'.op = "authenticate" /\ now' = now)
       => LET u == kc_last'.username
          IN  IF kc_serial' = kc_serial
              THEN kc_last'.raised /\ kc_cache' = kc_cache
              ELSE /\ ~kc_last'.raised
                   /\ kc_cache'[u].present
                   /\ kc_cache'[u].timestamp = now
                   /\ kc_cache'[u].token_data.access_token = kc_last'.access_token
                   /\ kc_last'.access_token = kc_serial'
                   /\ \A v \in Principals \ {u} : kc_cache'[v] = kc_cache[v]]_vars

\* C14 witness: a successful authenticate has overwritten the entry the
\* principal had before with the new token and the time of the call.
C14_Witness ==
    /\ kc_last.op = "authenticate"
    /\ ~kc_last.raised
    /\ kc_last.before.present
    /\ kc_last.before.timestamp < kc_last.at
    /\ kc_cache[kc_last.username].timestamp = kc_last.at
    /\ kc_cache[kc_last.username].token_data.access_token = kc_last.access_token
    /\ kc_last.before.token_data.access_token # kc_last.access_token

\* C15 (as claimed): after a successful refresh of a principal's token the
\* principal's cache entry holds the refreshed token and the time of the
\* refresh.
C15_RefreshUpdatesCache ==
    (kc_last.op = "refresh_token" /\ ~kc_last.raised)
    => /\ kc_cache[kc_last.username].token_data.access_token = kc_last.access_token
       /\ kc_cache[kc_last.username].timestamp = kc_last.at

\* C16: is_token_valid never raises; it answers true exactly when the token
\* decodes, its exp claim is a number and that number is strictly greater
\* than the current time; otherwise (no exp claim, exp equal to the current
\* time, a token that does not decode) it answers false.
C16_IsTokenValidStrict ==
    kc_last.op = "is_token_valid"
    => /\ ~kc_last.raised
       /\ kc_last.result \in {"true", "false"}
       /\ kc_last.result = "true"
            <=> (jwt.decodes /\ jwt.exp \notin {Absent, NonNumeric} /\ jwt.exp > kc_last.at)

\* C16 witness: a token whose exp equals the current time is reported invalid.
C16_Witness ==
    /\ kc_last.op = "is_token_valid"
    /\ jwt.decodes
    /\ jwt.exp = kc_last.at
    /\ kc_last.result = "false"

\* C18: a step that is a refresh_token call never makes a password-grant
\* request and never changes the cache; when the endpoint issued no token it
\* raises.
C18_RefreshWithoutFallback ==
    [][(kc_last'.op = "refresh_token" /\ now' = now)
       => /\ kc_last'.auth_calls = 0
          /\ kc_cache' = kc_cache
          /\ (kc_serial' = kc_serial) => kc_last'.raised]_vars

\* C18 witness: a rejected refresh has raised, with the entry of the token's
\* holder as it was.
C18_Witness ==
    /\ kc_last.op = "refresh_token"
    /\ kc_last.raised
    /\ kc_last.auth_calls = 0
    /\ kc_last.before.present
    /\ kc_cache[kc_last.username] = kc_last.before

\* C20: no step of the client removes a principal's cache entry.
C20_EntriesNeverEvicted ==
    [][\A u \in Principals : kc_cache[u].present => kc_cache'[u].present]_vars

\* C20 witness: both principals have an entry, and the last call, made for a
\* principal that had one already, failed.
C20_Witness ==
    /\ \A u \in Principals : kc_cache[u].present
    /\ kc_last.op \in {"authenticate", "get_access_token", "refresh_token"}
    /\ kc_last.raised
    /\ kc_last.before.present

----------------------------------------------------------------------------
(* Claims about concurrent renewal (SpecRace).                             *)

\* C19 (as claimed): once two concurrent ensure_valid_credentials calls have
\* both returned, the manager stores a credential set, and a storage call
\* made while that set has not expired is signed with a set whose
\* expiration has not passed.
C19_RaceLeavesUsableCredentials ==
    (\A t \in Threads : race.pc[t] = "done")
    => /\ mgr.s3_credentials # NullCredentials
       /\ (last_storage.issued /\ mgr.s3_credentials.expiration.wall > now)
            => last_storage.left >= 0

----------------------------------------------------------------------------
(* Claims about the manager's identity token (SpecToken, SpecExchange).    *)

\* C21: refresh_oidc_token falls back to authenticate.  With no refresh
\* token held it makes no refresh call and one authenticate; with one held
\* it makes one refresh call, and one authenticate exactly when that call
\* failed.  When it returns normally the held identity token is the one of
\* the last response received and its expiry is the arrival of that response
\* plus its expires_in (300 when it has none); when the fallback
\* authenticate fails, the call raises.
C21_RefreshFallsBack ==
    [][(token_call'.op = "refresh_oidc_token" /\ now' = now)
       => LET lg == token_call'.log
              resp == token_call'.resp
              answered == kc_serial' - kc_serial
          IN  /\ IF mgr.refresh_token = None
                 THEN lg["refresh"] = 0 /\ lg["authenticate"] = 1
                 ELSE /\ lg["refresh"] = 1
                      /\ \/ /\ lg["authenticate"] = 0
                            /\ answered = 1
                            /\ ~token_call'.raised
                         \/ /\ lg["authenticate"] = 1
                            /\ answered <= 1
              /\ ~token_call'.raised
                   => /\ resp # NoTokenData
                      /\ resp.access_token = kc_serial'
                      /\ mgr'.oidc_token = resp.access_token
                      /\ mgr'.oidc_token_expires_at
                           = local_now + expires_in_or_default(resp)
              /\ (lg["authenticate"] = 1 /\ answered = 0) => token_call'.raised
      ]_vars

\* C21 witness: a refresh call failed, the fallback authenticate succeeded
\* and refresh_oidc_token returned with the token of that authenticate.
C21_Witness ==
    /\ token_call.op = "refresh_oidc_token"
    /\ token_call.log["refresh"] = 1
    /\ token_call.log["authenticate"] = 1
    /\ ~token_call.raised
    /\ mgr.oidc_token = token_call.resp.access_token

\* C22 (as claimed): get_s3_credentials sends the held identity token to the
\* exchange endpoint, without replacing it first, only at a time more than
\* 30 seconds before that token's expiry instant.
C22_ExchangeKeepsMargin ==
    [][(/\ token_call'.op = "get_s3_credentials"
        /\ now' = now
        /\ token_call'.log["exchange"] = 1
        /\ token_call'.log["authenticate"] + token_call'.log["refresh"] = 0)
       => local_now < mgr.oidc_token_expires_at - 30
      ]_vars

\* C23 (as claimed): after any sequence of authenticate and
\* refresh_oidc_token calls, whenever oidc_token is set,
\* oidc_token_expires_at is set and is the expiry instant given by the
\* response oidc_token came from.
C23_TokenAndExpiryMatch ==
    mgr.oidc_token # None
    => /\ mgr.oidc_token_expires_at # Absent
       /\ token_call.origin.token = mgr.oidc_token
       /\ mgr.oidc_token_expires_at = token_call.origin.expires_at

----------------------------------------------------------------------------
(* A claim about the independence of cache entries (SpecKC).               *)

\* C25: authenticate or get_access_token for one principal, succeeding or
\* failing, leaves the cache entry of every other principal as it was, and
\* a get_access_token answered from the cache changes no entry.
C25_EntriesIndependent ==
    [][(kc_last'.op \in {"authenticate", "get_access_token"} /\ now' = now)
       => /\ \A v \in Principals \ {kc_last'.username} : kc_cache'[v] = kc_cache[v]
          /\ (kc_last'.op = "get_access_token" /\ kc_last'.auth_calls = 0)
               => kc_cache' = kc_cache
      ]_vars

\* C25 witness: while the other principal holds an entry, a principal has
\* authenticated successfully and its own entry was written.
C25_Witness ==
    /\ kc_last.op \in {"authenticate", "get_access_token"}
    /\ kc_last.auth_calls = 1
    /\ ~kc_last.raised
    /\ kc_cache[kc_last.username].present
    /\ kc_cache[kc_last.username] # kc_last.before
    /\ \E v \in Principals \ {kc_last.username} : kc_cache[v].present

====
